---- MODULE Spec2Model ----
(***************************************************************************)
(* Model of beets/dbcore/types.py: the Type descriptor hierarchy           *)
(* (Integer, PaddedInt, ScaledInt, Id, Float, String, Boolean), the Python *)
(* builtins its method bodies call, and callers that invoke format and     *)
(* parse on one shared descriptor.                                         *)
(*                                                                         *)
(* Text is a sequence of one-character strings.  A Python value is a       *)
(* tagged record [t, v]; a float is the rational num/den, with den = 0     *)
(* marking nan (num = 0), inf (num = 1) and -inf (num = -1).  The outcome  *)
(* of a call is [exc, val]: exc = "" for a normal return, otherwise the    *)
(* name of the exception that propagates out of the call.                  *)
(***************************************************************************)
EXTENDS Integers, Sequences, FiniteSets, TLC

\* ------------------------------------------------------------------ bounds
MaxLen == 3
MaxInt == 110
MaxDigits == 3
MaxUnit == 3
NumCallers == 2

\* ------------------------------------------------------------------ values
None == [t |-> "none", v |-> 0]
IntV(n) == [t |-> "int", v |-> n]
StrV(s) == [t |-> "str", v |-> s]
BoolV(b) == [t |-> "bool", v |-> b]
FloatV(num, den) == [t |-> "float", v |-> <<num, den>>]

Ok(val) == [exc |-> "", val |-> val]
Raise(exc) == [exc |-> exc, val |-> None]

Alphabet == {"0", "1", "-", "+", " ", ".", "k"}
Texts == UNION {[1..n -> Alphabet] : n \in 0..MaxLen}

DigitChars == <<"0", "1", "2", "3", "4", "5", "6", "7", "8", "9">>
IsDigit(c) == \E d \in 1..10 : DigitChars[d] = c
DigitVal(c) == (CHOOSE d \in 1..10 : DigitChars[d] = c) - 1
IsSpace(c) == c = " "

\* --------------------------------------------------------- Python builtins
\* Truth value testing, as used by `or`, `if` and bool().
Truthy(x) ==
    CASE x.t = "none" -> FALSE
      [] x.t = "int" -> x.v # 0
      [] x.t = "bool" -> x.v
      [] x.t = "str" -> Len(x.v) > 0
      [] x.t = "float" -> ~(x.v[1] = 0 /\ x.v[2] # 0)

\* `a or b`
Or(a, b) == IF Truthy(a) THEN a ELSE b

bool(x) == BoolV(Truthy(x))

RECURSIVE NatToStr(_)
NatToStr(n) ==
    IF n < 10 THEN <<DigitChars[n + 1]>>
    ELSE NatToStr(n \div 10) \o <<DigitChars[(n % 10) + 1]>>

IntToStr(n) == IF n < 0 THEN <<"-">> \o NatToStr(-n) ELSE NatToStr(n)

\* unicode(x): the text form of a value.
unicode(x) ==
    CASE x.t = "none" -> <<"N", "o", "n", "e">>
      [] x.t = "bool" -> IF x.v THEN <<"T", "r", "u", "e">>
                                ELSE <<"F", "a", "l", "s", "e">>
      [] x.t = "int" -> IntToStr(x.v)
      [] x.t = "str" -> x.v

RECURSIVE SkipSpace(_)
SkipSpace(s) ==
    IF s # <<>> /\ IsSpace(Head(s)) THEN SkipSpace(Tail(s)) ELSE s

RECURSIVE DigitRun(_)
\* Length of the longest prefix of s made of decimal digits.
DigitRun(s) ==
    IF s # <<>> /\ IsDigit(Head(s)) THEN 1 + DigitRun(Tail(s)) ELSE 0

RECURSIVE DigitsToNat(_)
DigitsToNat(s) ==
    IF s = <<>> THEN 0
    ELSE 10 * DigitsToNat(SubSeq(s, 1, Len(s) - 1)) + DigitVal(s[Len(s)])

Drop(s, n) == SubSeq(s, n + 1, Len(s))

\* int(x) in base 10: leading whitespace, an optional sign, one or more
\* digits, trailing whitespace, end of text.  Anything else in a text is a
\* ValueError; None is a TypeError.  The result is unbounded (int is
\* promoted to long).
int(x) ==
    CASE x.t = "int" -> Ok(x)
      [] x.t = "bool" -> Ok(IntV(IF x.v THEN 1 ELSE 0))
      [] x.t = "none" -> Raise("TypeError")
      [] x.t = "str" ->
           LET s1 == SkipSpace(x.v)
               neg == s1 # <<>> /\ Head(s1) = "-"
               s2 == IF s1 # <<>> /\ Head(s1) \in {"+", "-"} THEN Tail(s1) ELSE s1
               k == DigitRun(s2)
               rest == SkipSpace(Drop(s2, k))
               mag == DigitsToNat(SubSeq(s2, 1, k))
           IN IF k = 0 \/ rest # <<>> THEN Raise("ValueError")
              ELSE Ok(IntV(IF neg THEN -mag ELSE mag))

RECURSIVE Pow10(_)
Pow10(k) == IF k = 0 THEN 1 ELSE 10 * Pow10(k - 1)

\* float(x) on the texts of the alphabet: leading whitespace, an optional
\* sign, digits with at most one ".", at least one digit, trailing
\* whitespace.  Anything else is a ValueError.
float(x) ==
    CASE x.t = "float" -> Ok(x)
      [] x.t = "int" -> Ok(FloatV(x.v, 1))
      [] x.t = "none" -> Raise("TypeError")
      [] x.t = "bool" -> Ok(FloatV(IF x.v THEN 1 ELSE 0, 1))
      [] x.t = "str" ->
           LET s1 == SkipSpace(x.v)
               neg == s1 # <<>> /\ Head(s1) = "-"
               s2 == IF s1 # <<>> /\ Head(s1) \in {"+", "-"} THEN Tail(s1) ELSE s1
               k == DigitRun(s2)
               s3 == Drop(s2, k)
               dot == s3 # <<>> /\ Head(s3) = "."
               s4 == IF dot THEN Tail(s3) ELSE s3
               f == IF dot THEN DigitRun(s4) ELSE 0
               rest == SkipSpace(Drop(s4, f))
               mag == DigitsToNat(SubSeq(s2, 1, k) \o SubSeq(s4, 1, f))
           IN IF k + f = 0 \/ rest # <<>> THEN Raise("ValueError")
              ELSE Ok(FloatV(IF neg THEN -mag ELSE mag, Pow10(f)))

\* bool is a subclass of int: True is 1 and False is 0 in arithmetic and in
\* number formatting.
IsIntegral(x) == x.t \in {"int", "bool"}
IntOf(x) == IF x.t = "bool" THEN (IF x.v THEN 1 ELSE 0) ELSE x.v

Rep(c, n) == [i \in 1..n |-> c]
Max(a, b) == IF a >= b THEN a ELSE b
Abs(n) == IF n < 0 THEN -n ELSE n

\* format(x, '0{width}d'): the sign first, then zero fill, then the digits
\* (a leading 0 in the format spec means fill '0' with alignment '=').
\* A value that is not an integer has no 'd' presentation: ValueError.
FormatZeroPadD(x, width) ==
    IF ~IsIntegral(x) THEN Raise("ValueError")
    ELSE LET n == IntOf(x)
             sign == IF n < 0 THEN <<"-">> ELSE <<>>
             digs == NatToStr(Abs(n))
             fill == Max(0, width - Len(sign) - Len(digs))
         IN Ok(StrV(sign \o Rep("0", fill) \o digs))

\* format(x, '.1f'): one digit after the point, the exact value rounded
\* half to even.  nan and inf have their names.
FormatFixed1(x) ==
    IF x.t \notin {"float", "int", "bool"} THEN Raise("ValueError")
    ELSE LET num == IF IsIntegral(x) THEN IntOf(x) ELSE x.v[1]
             den == IF IsIntegral(x) THEN 1 ELSE x.v[2]
             a == Abs(num) * 10
             q == a \div Max(den, 1)
             r == a % Max(den, 1)
             t == IF 2 * r > den THEN q + 1
                  ELSE IF 2 * r = den THEN q + (q % 2) ELSE q
             sign == IF num < 0 THEN <<"-">> ELSE <<>>
         IN IF den = 0
            THEN Ok(StrV(IF num = 0 THEN <<"n", "a", "n">>
                         ELSE sign \o <<"i", "n", "f">>))
            ELSE Ok(StrV(sign \o NatToStr(t \div 10) \o <<".">>
                         \o NatToStr(t % 10)))

\* a // b on integers, b > 0: the floor of the quotient.
FloorDiv(a, b) == a \div b

\* beets.util.str2bool: the human text to boolean parser.
str2bool(x) ==
    Ok(BoolV(x.v \in {<<"1">>, <<"y", "e", "s">>, <<"t", "r", "u", "e">>}))

\* ------------------------------------------------------------- descriptors
\* A fresh instance: no attribute of the descriptor is set yet.
NewObject(cls) ==
    [cls |-> cls, sql |-> "", query |-> "", digits |-> 0, unit |-> 0,
     suffix |-> <<>>]

Type__init__(self, sql, query) == [self EXCEPT !.sql = sql, !.query = query]

Integer__init__(self, sql, query) == Type__init__(self, sql, query)

PaddedInt__init__(self, digits) ==
    [Integer__init__(self, "INTEGER", "NumericQuery") EXCEPT !.digits = digits]

ScaledInt__init__(self, unit, suffix) ==
    [Integer__init__(self, "INTEGER", "NumericQuery")
        EXCEPT !.unit = unit, !.suffix = suffix]

\* Id constructed like a plain Integer, without its own sql.
Id__init__plain(self) == Integer__init__(self, "INTEGER", "NumericQuery")

Id__init__(self) == Integer__init__(self, "INTEGER PRIMARY KEY", "NumericQuery")

Float__init__(self, sql, query) == Type__init__(self, sql, query)

String__init__(self, sql, query) == Type__init__(self, sql, query)

Boolean__init__(self, sql, query) == Type__init__(self, sql, query)

Suffixes == {<<>>, <<"k">>}

\* The descriptors a schema constructs, each with its default sql and query.
Descriptors ==
    {Integer__init__(NewObject("Integer"), "INTEGER", "NumericQuery")}
    \cup {PaddedInt__init__(NewObject("PaddedInt"), d) : d \in 1..MaxDigits}
    \cup {ScaledInt__init__(NewObject("ScaledInt"), u, s) :
             u \in 1..MaxUnit, s \in Suffixes}
    \cup {Id__init__(NewObject("Id"))}
    \cup {Float__init__(NewObject("Float"), "REAL", "NumericQuery")}
    \cup {String__init__(NewObject("String"), "TEXT", "SubstringQuery")}
    \cup {Boolean__init__(NewObject("Boolean"), "INTEGER", "BooleanQuery")}

\* ----------------------------------------------------------------- methods
Type_format(self, value) == Raise("NotImplementedError")

Type_parse(self, string) == Raise("NotImplementedError")

\* format without the `or 0`.
Integer_format_noor(self, value) == Ok(StrV(unicode(value)))

\* format of the magnitude: the sign is lost.
Integer_format_unsigned(self, value) ==
    LET x == Or(value, IntV(0)) IN Ok(StrV(unicode(IntV(Abs(x.v)))))

Integer_format(self, value) == Ok(StrV(unicode(Or(value, IntV(0)))))

\* parse whose except clause names TypeError: a ValueError propagates.
Integer_parse_wrongexcept(self, string) ==
    LET r == int(string)
    IN IF r.exc = "TypeError" THEN Ok(IntV(0)) ELSE r

\* parse that takes a text with leading whitespace for malformed.
Integer_parse_strict(self, string) ==
    LET r == int(string)
    IN IF r.exc = "ValueError" \/ string.v # SkipSpace(string.v) THEN Ok(IntV(0))
       ELSE r

Integer_parse(self, string) ==
    LET r == int(string)
    IN IF r.exc = "ValueError" THEN Ok(IntV(0)) ELSE r

\* format with the fill put in front of the sign ('{0:0>{1}d}').
PaddedInt_format_leftfill(self, value) ==
    LET s == unicode(Or(value, IntV(0)))
    IN Ok(StrV(Rep("0", Max(0, self.digits - Len(s))) \o s))

PaddedInt_format(self, value) == FormatZeroPadD(Or(value, IntV(0)), self.digits)

\* format with a quotient truncated toward zero.
ScaledInt_format_trunc(self, value) ==
    LET x == Or(value, IntV(0))
        q == IF x.v < 0 THEN -((-x.v) \div self.unit) ELSE x.v \div self.unit
    IN Ok(StrV(unicode(IntV(q)) \o self.suffix))

ScaledInt_format(self, value) ==
    LET x == Or(value, IntV(0))
    IN CASE x.t = "str" -> Raise("TypeError")
         [] IsIntegral(x) /\ self.unit = 0 -> Raise("ZeroDivisionError")
         [] IsIntegral(x) /\ self.unit # 0 ->
              Ok(StrV(unicode(IntV(FloorDiv(IntOf(x), self.unit))) \o self.suffix))

Float_format(self, value) == FormatFixed1(Or(value, FloatV(0, 1)))

Float_parse(self, string) ==
    LET r == float(string)
    IN IF r.exc = "ValueError" THEN Ok(FloatV(0, 1)) ELSE r

\* format without the emptiness test.
String_format_always(self, value) == Ok(StrV(unicode(value)))

String_format(self, value) ==
    IF Truthy(value) THEN Ok(StrV(unicode(value))) ELSE Ok(StrV(<<>>))

String_parse(self, string) == Ok(string)

\* format without the bool() coercion.
Boolean_format_raw(self, value) == Ok(StrV(unicode(value)))

Boolean_format(self, value) == Ok(StrV(unicode(bool(value))))

Boolean_parse(self, string) == str2bool(string)

\* ---------------------------------------------------------------- dispatch
Base(cls) ==
    CASE cls \in {"PaddedInt", "ScaledInt", "Id"} -> "Integer"
      [] cls \in {"Integer", "Float", "String", "Boolean"} -> "Type"

\* The methods a class body defines itself.
Defines(cls) ==
    CASE cls \in {"Type", "Integer", "Float", "String", "Boolean"} ->
           {"format", "parse"}
      [] cls \in {"PaddedInt", "ScaledInt"} -> {"format"}
      [] cls = "Id" -> {}

RECURSIVE Lookup(_, _)
\* Method resolution: the nearest class on the inheritance chain defining m.
Lookup(cls, m) == IF m \in Defines(cls) THEN cls ELSE Lookup(Base(cls), m)

\* self.m(arg)
Invoke(self, m, arg) ==
    LET k == Lookup(self.cls, m)
    IN CASE k = "Type" /\ m = "format" -> Type_format(self, arg)
         [] k = "Type" /\ m = "parse" -> Type_parse(self, arg)
         [] k = "Integer" /\ m = "format" -> Integer_format(self, arg)
         [] k = "Integer" /\ m = "parse" -> Integer_parse(self, arg)
         [] k = "PaddedInt" /\ m = "format" -> PaddedInt_format(self, arg)
         [] k = "ScaledInt" /\ m = "format" -> ScaledInt_format(self, arg)
         [] k = "Float" /\ m = "format" -> Float_format(self, arg)
         [] k = "Float" /\ m = "parse" -> Float_parse(self, arg)
         [] k = "String" /\ m = "format" -> String_format(self, arg)
         [] k = "String" /\ m = "parse" -> String_parse(self, arg)
         [] k = "Boolean" /\ m = "format" -> Boolean_format(self, arg)
         [] k = "Boolean" /\ m = "parse" -> Boolean_parse(self, arg)

\* PaddedInt.format remembering the widest value it rendered in self.digits.
AttrsAfter_widen(self, m, arg) ==
    IF self.cls = "PaddedInt" /\ m = "format"
    THEN [self EXCEPT !.digits = Max(@, Len(unicode(Or(arg, IntV(0)))))]
    ELSE self

\* The descriptor's attributes after self.m(arg): no method body assigns to
\* an attribute of self.
AttrsAfter(self, m, arg) == self

\* ------------------------------------------------------------------ inputs
IntValues == {IntV(n) : n \in -MaxInt..MaxInt}
FloatValues ==
    {FloatV(n, 4) : n \in -MaxInt..MaxInt}
    \cup {FloatV(0, 0), FloatV(1, 0), FloatV(-1, 0)}
TextValues == {StrV(s) : s \in Texts}

\* The values a field of the descriptor's type holds; None is the absent one.
FormatDomain(cls) ==
    CASE cls \in {"Integer", "PaddedInt", "ScaledInt", "Id"} -> {None} \cup IntValues
      [] cls = "Float" -> {None} \cup FloatValues
      [] cls = "String" -> {None} \cup TextValues
      [] cls = "Boolean" -> {None, BoolV(TRUE), BoolV(FALSE)} \cup IntValues

ConcTexts == {StrV(<<>>), StrV(<<"1">>), StrV(<<" ", "1">>), StrV(<<"k">>)}

ConcDomain(cls) ==
    CASE cls \in {"Integer", "PaddedInt", "ScaledInt", "Id"} -> {None, IntV(-5), IntV(7)}
      [] cls = "Float" -> {None, FloatV(5, 4)}
      [] cls = "String" -> {None, StrV(<<"k">>)}
      [] cls = "Boolean" -> {None, BoolV(TRUE), IntV(0)}

\* ------------------------------------------------------------------- state
VARIABLES desc, calls

vars == <<desc, calls>>

Callers == 1..NumCallers

Idle ==
    [pc |-> "idle", m |-> "", arg |-> None, self |-> NewObject(""),
     res |-> Ok(None), rt |-> FALSE, src |-> None]

Init ==
    /\ desc \in Descriptors
    /\ calls = [c \in {1} |-> Idle]

InitConc ==
    /\ desc \in Descriptors
    /\ calls = [c \in Callers |-> Idle]

\* A caller invokes desc.format(value) with a value drawn from values.
CallFormat(c, values) ==
    /\ calls[c].pc = "idle"
    /\ \E value \in values :
           calls' = [calls EXCEPT ![c] = [Idle EXCEPT !.pc = "called",
                                             !.m = "format", !.arg = value]]
    /\ UNCHANGED desc

\* A caller invokes desc.parse(string) with a text drawn from strings.
CallParse(c, strings) ==
    /\ calls[c].pc = "idle"
    /\ \E string \in strings :
           calls' = [calls EXCEPT ![c] = [Idle EXCEPT !.pc = "called",
                                             !.m = "parse", !.arg = string]]
    /\ UNCHANGED desc

\* A caller feeds the text format returned back to desc.parse.
CallParseBack(c) ==
    /\ calls[c].pc = "done"
    /\ calls[c].m = "format"
    /\ calls[c].res.exc = ""
    /\ calls' = [calls EXCEPT ![c] = [Idle EXCEPT !.pc = "called",
                                         !.m = "parse", !.arg = calls[c].res.val,
                                         !.rt = TRUE, !.src = calls[c].arg]]
    /\ UNCHANGED desc

\* The method body starts: it loads self and the attributes it reads.
Enter(c) ==
    /\ calls[c].pc = "called"
    /\ calls' = [calls EXCEPT ![c].pc = "running", ![c].self = desc]
    /\ UNCHANGED desc

\* The method body finishes: it returns or raises.
Return(c) ==
    /\ calls[c].pc = "running"
    /\ calls' = [calls EXCEPT ![c].pc = "done",
                              ![c].res = Invoke(calls[c].self, calls[c].m, calls[c].arg)]
    /\ desc' = AttrsAfter(desc, calls[c].m, calls[c].arg)

\* The caller drops the result.
Reset(c) ==
    /\ calls[c].pc = "done"
    /\ calls' = [calls EXCEPT ![c] = Idle]
    /\ UNCHANGED desc

Next ==
    \E c \in {1} :
        \/ CallFormat(c, FormatDomain(desc.cls))
        \/ CallParse(c, TextValues)
        \/ CallParseBack(c)
        \/ Enter(c)
        \/ Return(c)
        \/ Reset(c)

NextConc ==
    \E c \in Callers :
        \/ CallFormat(c, ConcDomain(desc.cls))
        \/ CallParse(c, ConcTexts)
        \/ CallParseBack(c)
        \/ Enter(c)
        \/ Return(c)
        \/ Reset(c)

Spec == Init /\ [][Next]_vars

SpecConc == InitConc /\ [][NextConc]_vars

\* ------------------------------------------------- vocabulary of the claims
Family == {"Integer", "PaddedInt", "ScaledInt", "Id"}

Done(c) == calls[c].pc = "done"

Finished(c, cls, m) == Done(c) /\ desc.cls \in cls /\ calls[c].m = m

RECURSIVE PlaceValue(_)
\* The number a run of digits denotes, most significant digit first.
PlaceValue(s) ==
    IF s = <<>> THEN 0
    ELSE DigitVal(Head(s)) * Pow10(Len(s) - 1) + PlaceValue(Tail(s))

AllDigits(s) == s # <<>> /\ \A i \in 1..Len(s) : IsDigit(s[i])

\* s is the decimal string form of n: "-" for a negative n, then the digits
\* of its magnitude with no leading zero.
IsDecimalOf(s, n) ==
    LET body == IF n < 0 THEN Drop(s, 1) ELSE s
    IN /\ n < 0 => (s # <<>> /\ s[1] = "-")
       /\ AllDigits(body)
       /\ Len(body) > 1 => body[1] # "0"
       /\ PlaceValue(body) = Abs(n)

\* A decimal integer literal: an optional sign, then one or more digits.
IsIntLiteral(s) ==
    AllDigits(IF s # <<>> /\ s[1] \in {"+", "-"} THEN Drop(s, 1) ELSE s)

LiteralValue(s) ==
    IF s[1] = "-" THEN -PlaceValue(Drop(s, 1))
    ELSE IF s[1] = "+" THEN PlaceValue(Drop(s, 1))
    ELSE PlaceValue(s)

\* s without its leading and trailing whitespace.
Trim(s) ==
    LET ink == {i \in 1..Len(s) : ~IsSpace(s[i])}
    IN IF ink = {} THEN <<>>
       ELSE SubSeq(s, CHOOSE i \in ink : \A j \in ink : i <= j,
                      CHOOSE i \in ink : \A j \in ink : i >= j)

\* The integer a format call renders: the absent value counts as 0.
Rendered(value) == IF value = None THEN 0 ELSE value.v

ZerosThen(r, z) == z <= Len(r) /\ \A i \in 1..z : r[i] = "0"

\* The type of value each class's parse returns.
ParseType(cls) ==
    CASE cls \in Family -> "int"
      [] cls = "Float" -> "float"
      [] cls = "String" -> "str"
      [] cls = "Boolean" -> "bool"

\* --------------------------------------------------------------------- C1
\* C1: on each of the seven descriptors, every finished format or parse call
\* has returned a value and raised nothing: format a text, parse a value of
\* the descriptor's type, whatever text or value (or None) was passed.
C1_NeverRaises ==
    \A c \in DOMAIN calls :
        Done(c) =>
            /\ calls[c].res.exc = ""
            /\ calls[c].m = "format" => calls[c].res.val.t = "str"
            /\ calls[c].m = "parse" => calls[c].res.val.t = ParseType(desc.cls)

C1_Witness ==
    \E c \in DOMAIN calls :
        /\ Finished(c, {"Integer", "Float"}, "parse")
        /\ ~IsIntLiteral(Trim(calls[c].arg.v))
        /\ Len(calls[c].arg.v) = MaxLen
        /\ calls[c].res.exc = ""

C3_Original ==
    \A c \in DOMAIN calls :
        Finished(c, {"PaddedInt"}, "format") =>
            LET r == calls[c].res.val.v
                n == Rendered(calls[c].arg)
            IN \E z \in 0..Len(r) :
                   /\ ZerosThen(r, z)
                   /\ IsDecimalOf(Drop(r, z), n)
                   /\ z = Max(0, desc.digits - (Len(r) - z))

\* C3 amended: PaddedInt.format returns "-" when n is negative, then zeros,
\* then the decimal digits of |n|; there are as many zeros as bring the
\* whole result to digits characters, and none when sign and digits already
\* have digits characters or more.
C3_SignThenZeros ==
    \A c \in DOMAIN calls :
        Finished(c, {"PaddedInt"}, "format") =>
            LET r == calls[c].res.val.v
                n == Rendered(calls[c].arg)
                sg == IF n < 0 THEN 1 ELSE 0
                body == Drop(r, sg)
            IN /\ calls[c].res.exc = ""
               /\ Len(r) >= sg + 1
               /\ n < 0 => r[1] = "-"
               /\ \E z \in 0..Len(body) :
                      /\ ZerosThen(body, z)
                      /\ IsDecimalOf(Drop(body, z), Abs(n))
                      /\ z = Max(0, desc.digits - sg - (Len(body) - z))

C3_Witness ==
    \E c \in DOMAIN calls :
        /\ Finished(c, {"PaddedInt"}, "format")
        /\ calls[c].arg # None
        /\ calls[c].arg.v < 0
        /\ Len(calls[c].res.val.v) = desc.digits
        /\ calls[c].res.val.v[2] = "0"

\* --------------------------------------------------------------------- C4
\* C4: ScaledInt.format returns the decimal string of floor(n / unit)
\* followed at once by suffix, for negative n too and with None as 0.
C4_ScaledFloor ==
    \A c \in DOMAIN calls :
        Finished(c, {"ScaledInt"}, "format") =>
            LET r == calls[c].res.val.v
                n == Rendered(calls[c].arg)
                p == Len(r) - Len(desc.suffix)
            IN /\ calls[c].res.exc = ""
               /\ p >= 1
               /\ Drop(r, p) = desc.suffix
               /\ \E q \in -(Abs(n) + 1)..(Abs(n) + 1) :
                      /\ q * desc.unit <= n
                      /\ n < (q + 1) * desc.unit
                      /\ IsDecimalOf(SubSeq(r, 1, p), q)

C4_Witness ==
    \E c \in DOMAIN calls :
        /\ Finished(c, {"ScaledInt"}, "format")
        /\ calls[c].arg # None
        /\ calls[c].arg.v < 0
        /\ desc.unit > 1
        /\ calls[c].arg.v % desc.unit # 0
        /\ desc.suffix # <<>>

\* --------------------------------------------------------------------- C5
\* C5: format on Integer and Id returns "0" for None and for 0, and the
\* decimal string of n for every integer n.
C5_IntegerFormat ==
    \A c \in DOMAIN calls :
        Finished(c, {"Integer", "Id"}, "format") =>
            /\ calls[c].res.exc = ""
            /\ calls[c].arg \in {None, IntV(0)} => calls[c].res.val.v = <<"0">>
            /\ calls[c].arg # None => IsDecimalOf(calls[c].res.val.v, calls[c].arg.v)

C5_Witness ==
    \E c \in DOMAIN calls :
        /\ Finished(c, {"Id"}, "format")
        /\ calls[c].arg = None
        /\ calls[c].res.val.v = <<"0">>

\* --------------------------------------------------------------------- C6
\* C6: on Integer and Id, parse of the text format returned for an integer
\* n returns n.
C6_RoundTrip ==
    \A c \in DOMAIN calls :
        (Finished(c, {"Integer", "Id"}, "parse") /\ calls[c].rt
            /\ calls[c].src # None) =>
            calls[c].res = Ok(calls[c].src)

C6_Witness ==
    \E c \in DOMAIN calls :
        /\ Finished(c, {"Integer"}, "parse")
        /\ calls[c].rt
        /\ calls[c].src = IntV(-MaxInt)
        /\ calls[c].res.val = calls[c].src

\* On ScaledInt the same round trip can return another number.
C6_ScaledIntDiffers ==
    \E c \in DOMAIN calls :
        /\ Finished(c, {"ScaledInt"}, "parse")
        /\ calls[c].rt
        /\ calls[c].src # None
        /\ calls[c].res.val # calls[c].src

\* --------------------------------------------------------------------- C7
\* C7: no step changes the descriptor's sql, query, digits, unit or suffix,
\* and a call that returns while other calls on the same descriptor are in
\* flight returns what the call returns on the descriptor when run alone.
C7_Immutable ==
    [][/\ desc' = desc
       /\ \A c \in DOMAIN calls :
              (calls[c].pc = "running" /\ calls'[c].pc = "done") =>
                  calls'[c].res = Invoke(desc, calls[c].m, calls[c].arg)]_vars

C7_Witness ==
    \E c1, c2 \in DOMAIN calls :
        /\ c1 # c2
        /\ desc.cls = "PaddedInt"
        /\ calls[c1].pc = "running"
        /\ calls[c1].m = "parse"
        /\ Done(c2)
        /\ calls[c2].m = "format"

\* --------------------------------------------------------------------- C8
\* C8: the descriptor's (sql, query) pair is fixed by its class: INTEGER
\* with NumericQuery for Integer, PaddedInt and ScaledInt; INTEGER PRIMARY
\* KEY with NumericQuery for Id; REAL with NumericQuery for Float; TEXT
\* with SubstringQuery for String; INTEGER with BooleanQuery for Boolean.
C8_StorageAndMatcher ==
    <<desc.sql, desc.query>> =
        CASE desc.cls \in {"Integer", "PaddedInt", "ScaledInt"} ->
               <<"INTEGER", "NumericQuery">>
          [] desc.cls = "Id" -> <<"INTEGER PRIMARY KEY", "NumericQuery">>
          [] desc.cls = "Float" -> <<"REAL", "NumericQuery">>
          [] desc.cls = "String" -> <<"TEXT", "SubstringQuery">>
          [] desc.cls = "Boolean" -> <<"INTEGER", "BooleanQuery">>

C8_Witness ==
    /\ desc.cls = "Id"
    /\ \E c \in DOMAIN calls : Done(c)

\* --------------------------------------------------------------------- C9
\* C9: String.format returns the text itself for a text and the empty text
\* for None; String.parse returns its argument; parse of format of a text
\* returns that text.
C9_String ==
    \A c \in DOMAIN calls :
        /\ Finished(c, {"String"}, "format") =>
               calls[c].res =
                   Ok(StrV(IF calls[c].arg = None THEN <<>> ELSE calls[c].arg.v))
        /\ Finished(c, {"String"}, "parse") =>
               /\ calls[c].res = Ok(calls[c].arg)
               /\ (calls[c].rt /\ calls[c].src # None) =>
                      calls[c].res = Ok(calls[c].src)

C9_Witness ==
    \E c \in DOMAIN calls :
        /\ Finished(c, {"String"}, "parse")
        /\ calls[c].rt
        /\ calls[c].src # None
        /\ Len(calls[c].src.v) = MaxLen
        /\ calls[c].res.val = calls[c].src

\* -------------------------------------------------------------------- C10
\* C10: Boolean.format returns "True" for True and for every non-zero
\* integer, "False" for False, 0 and None, and nothing else; Boolean.parse
\* returns what str2bool returns for the text.
C10_Boolean ==
    \A c \in DOMAIN calls :
        /\ Finished(c, {"Boolean"}, "format") =>
               LET a == calls[c].arg
                   yes == (a.t = "bool" /\ a.v) \/ (a.t = "int" /\ a.v # 0)
               IN calls[c].res =
                      Ok(StrV(IF yes THEN <<"T", "r", "u", "e">>
                                     ELSE <<"F", "a", "l", "s", "e">>))
        /\ Finished(c, {"Boolean"}, "parse") =>
               calls[c].res = str2bool(calls[c].arg)

C10_Witness ==
    \E c \in DOMAIN calls :
        /\ Finished(c, {"Boolean"}, "format")
        /\ calls[c].arg = IntV(-1)
        /\ calls[c].res.val.v = <<"T", "r", "u", "e">>

====
